---- MODULE Spec2Model ----
(***************************************************************************)
(* Cross-head knowledge distillation for the GFL detector                  *)
(* (mmdet/models/detectors/crosskd_gfl.py, class CrossKDGFL).              *)
(*                                                                         *)
(* Tensors are records [shape, data] with data in row-major order.  Real   *)
(* numbers are integers; statistics and sigmoid are carried in fixed point *)
(* with Scale units per 1.0.                                               *)
(***************************************************************************)
EXTENDS Integers, Sequences, FiniteSets, TLC

\* ------------------------------------------------------------------ state
\* one call of align_scale
VARIABLES al_stu, al_tea, al_out, al_pc

al_vars == <<al_stu, al_tea, al_out, al_pc>>

\* CrossKDGFL.loss up to the reused predictions
VARIABLES reused_teacher_head_idx, inplace_act, stu_net, batch_inputs,
          tea_out, stu_out, reused_in, reused_out, hd_pc

hd_vars == <<reused_teacher_head_idx, inplace_act, stu_net, batch_inputs,
             tea_out, stu_out, reused_in, reused_out, hd_pc>>

\* one call of pred_mimicking_loss_single
VARIABLES mm_in, mm_locals, mm_ret, mm_pc

mm_vars == <<mm_in, mm_locals, mm_ret, mm_pc>>

\* loss_by_feat, run by every process of the training job
VARIABLES dist_initialized, tea_levels, stu_levels, ls_feat_distill, ls_in,
          ls_pc, ls_targets, sent_avg, sent_new, ls_avg_factor, ls_sup,
          ls_new_avg_factor, ls_kd_avg_factor, ls_losses

ls_vars == <<dist_initialized, tea_levels, stu_levels, ls_feat_distill, ls_in,
             ls_pc, ls_targets, sent_avg, sent_new, ls_avg_factor, ls_sup,
             ls_new_avg_factor, ls_kd_avg_factor, ls_losses>>

vars == <<al_vars, hd_vars, mm_vars, ls_vars>>

\* a part of the program that a specification does not run stays idle
AlignIdle ==
  /\ al_stu = <<>>
  /\ al_tea = <<>>
  /\ al_out = <<>>
  /\ al_pc = "idle"

HeadIdle ==
  /\ reused_teacher_head_idx = 0
  /\ inplace_act = FALSE
  /\ stu_net = 0
  /\ batch_inputs = <<>>
  /\ tea_out = <<>>
  /\ stu_out = <<>>
  /\ reused_in = <<>>
  /\ reused_out = <<>>
  /\ hd_pc = "idle"

MimicIdle ==
  /\ mm_in = <<>>
  /\ mm_locals = <<>>
  /\ mm_ret = <<>>
  /\ mm_pc = "idle"

LossIdle ==
  /\ dist_initialized = FALSE
  /\ tea_levels = 0
  /\ stu_levels = 0
  /\ ls_feat_distill = <<>>
  /\ ls_in = <<>>
  /\ ls_pc = <<>>
  /\ ls_targets = <<>>
  /\ sent_avg = <<>>
  /\ sent_new = <<>>
  /\ ls_avg_factor = <<>>
  /\ ls_sup = <<>>
  /\ ls_new_avg_factor = <<>>
  /\ ls_kd_avg_factor = <<>>
  /\ ls_losses = <<>>

\* ---------------------------------------------------------------- bounds
MaxN == 2
MaxC == 2
MaxH == 2
MaxW == 2
MaxSeed == 2
\* bbox_head.cls_out_channels and bbox_head.reg_max of the modelled head
ClsOutChannels == 2
RegMax == 1
\* processes of the training job
NumProcs == 2

\* fixed-point resolution of statistics and of sigmoid
Scale == 100

\* ------------------------------------------------------- tensor primitives
RECURSIVE SeqSum(_)
SeqSum(s) == IF s = <<>> THEN 0 ELSE Head(s) + SeqSum(Tail(s))

RECURSIVE SeqProd(_)
SeqProd(s) == IF s = <<>> THEN 1 ELSE Head(s) * SeqProd(Tail(s))

RECURSIVE SeqMax(_)
SeqMax(s) ==
  IF Len(s) = 1 THEN s[1]
  ELSE LET m == SeqMax(Tail(s)) IN IF Head(s) >= m THEN Head(s) ELSE m

Min2(a, b) == IF a <= b THEN a ELSE b

\* the sequence f with every element computed once
Stored(f) == SubSeq(f, 1, Len(f))

Numel(t) == SeqProd(t.shape)

\* 0-based coordinates of the 0-based flat offset j in a 4-d row-major shape
Unravel4(j, sh) ==
  << j \div (sh[2] * sh[3] * sh[4]),
     (j \div (sh[3] * sh[4])) % sh[2],
     (j \div sh[4]) % sh[3],
     j % sh[4] >>

\* 0-based flat offset of 4-d coordinates
Ravel4(ix, sh) == ((ix[1] * sh[2] + ix[2]) * sh[3] + ix[3]) * sh[4] + ix[4]

\* element of a 4-d tensor at 0-based coordinates
At4(t, a, b, c, d) == t.data[Ravel4(<<a, b, c, d>>, t.shape) + 1]

\* Tensor.permute for a 4-d tensor; dims is the 0-based order of source
\* dimensions.  The result is given in the row-major order of its own shape,
\* which is what a following reshape reads.
Permute4(t, dims) ==
  LET sh  == t.shape
      ns  == <<sh[dims[1] + 1], sh[dims[2] + 1], sh[dims[3] + 1], sh[dims[4] + 1]>>
      \* inv[d]: the result dimension that source dimension d became
      inv == Stored([d \in 1..4 |-> CHOOSE i \in 1..4 : dims[i] + 1 = d])
      src(j) ==
        LET nix == Unravel4(j, ns)
        IN  Ravel4(<<nix[inv[1]], nix[inv[2]], nix[inv[3]], nix[inv[4]]>>, sh)
  IN  [shape |-> ns,
       data  |-> Stored([j \in 1..Numel(t) |-> t.data[src(j - 1) + 1]])]

\* Tensor.reshape(rows, -1)
ReshapeRows(t, rows) ==
  [shape |-> <<rows, Numel(t) \div rows>>, data |-> t.data]

\* Tensor.reshape(-1, cols)
ReshapeCols(t, cols) ==
  [shape |-> <<Numel(t) \div cols, cols>>, data |-> t.data]

\* Tensor.reshape(a, b, c, d)
Reshape4(t, sh) == [shape |-> sh, data |-> t.data]

\* row r (1-based) of a 2-d tensor
Row2(t, r) == SubSeq(t.data, (r - 1) * t.shape[2] + 1, r * t.shape[2])

\* -------------------------------------------------------------- arithmetic
RECURSIVE SqrtSearch(_, _, _)
SqrtSearch(n, lo, hi) ==
  IF lo >= hi THEN lo
  ELSE LET mid == (lo + hi + 1) \div 2
       IN  IF mid * mid <= n THEN SqrtSearch(n, mid, hi)
           ELSE SqrtSearch(n, lo, mid - 1)

\* floor of the square root (46340 is the largest root of a 32-bit integer)
Isqrt(n) == SqrtSearch(n, 0, IF n < 46340 THEN n ELSE 46340)

\* Tensor.mean(dim=-1) of one row, in fixed point
MeanF(row) == (SeqSum(row) * Scale) \div Len(row)

\* Tensor.std(dim=-1) of one row (unbiased: divides by M - 1), in fixed point
StdF(row) ==
  LET m  == MeanF(row)
      sq == [i \in 1..Len(row) |-> (row[i] * Scale - m) * (row[i] * Scale - m)]
  IN  Isqrt(SeqSum(sq) \div (Len(row) - 1))

\* (x - mean) / (std + 1e-6) in fixed point: 1e-6 is below the resolution
\* and only matters when std is 0, where the quotient is (x - mean) * 1e6
NormF(x, m, s) ==
  IF s = 0 THEN (x * Scale - m) * 1000000
  ELSE ((x * Scale - m) * Scale) \div s

\* z * tea_std + tea_mean, rounded back to the resolution of the features
DenormF(z, ts, tm) == ((z * ts) \div Scale + tm + Scale \div 2) \div Scale

\* ------------------------------------------------------------- align_scale
\* the bug of restoring the layout without the final permute
AlignScaleNoPermuteBack(stu_feat, tea_feat) ==
  LET C  == stu_feat.shape[2]
      s2 == ReshapeRows(Permute4(stu_feat, <<1, 0, 2, 3>>), C)
      t2 == ReshapeRows(Permute4(tea_feat, <<1, 0, 2, 3>>), C)
      M  == s2.shape[2]
      o2 == [shape |-> s2.shape,
             data  |-> Stored([j \in 1..Numel(s2) |->
                 LET r == (j - 1) \div M + 1
                 IN  DenormF(NormF(s2.data[j], MeanF(Row2(s2, r)),
                                   StdF(Row2(s2, r))),
                             StdF(Row2(t2, r)), MeanF(Row2(t2, r)))])]
  IN  Reshape4(o2, stu_feat.shape)

AlignScale(stu_feat, tea_feat) ==
  LET N  == stu_feat.shape[1]
      C  == stu_feat.shape[2]
      H  == stu_feat.shape[3]
      W  == stu_feat.shape[4]
      s2 == ReshapeRows(Permute4(stu_feat, <<1, 0, 2, 3>>), C)
      t2 == ReshapeRows(Permute4(tea_feat, <<1, 0, 2, 3>>), C)
      M  == s2.shape[2]
      o2 == [shape |-> s2.shape,
             data  |-> Stored([j \in 1..Numel(s2) |->
                 LET r == (j - 1) \div M + 1
                 IN  DenormF(NormF(s2.data[j], MeanF(Row2(s2, r)),
                                   StdF(Row2(s2, r))),
                             StdF(Row2(t2, r)), MeanF(Row2(t2, r)))])]
  IN  Permute4(Reshape4(o2, <<C, N, H, W>>), <<1, 0, 2, 3>>)

\* ------------------------------------------------------------ input tensors
\* a family of feature maps with position-dependent values
GenTensor(sh, seed) ==
  [shape |-> sh,
   data  |-> Stored([i \in 1..SeqProd(sh) |->
                (((seed + 1) * i * i + 3 * seed * i + seed) % 7) - 2])]

FeatShapes ==
  {sh \in (1..MaxN) \X (1..MaxC) \X (1..MaxH) \X (1..MaxW) :
     sh[1] * sh[3] * sh[4] >= 2}


AlignInit ==
  /\ \E sh \in FeatShapes, s \in 0..MaxSeed, t \in 0..MaxSeed :
       /\ al_stu = GenTensor(sh, s)
       /\ al_tea = GenTensor(sh, t + 1)
  /\ al_out = [shape |-> <<>>, data |-> <<>>]
  /\ al_pc = "call"
  /\ HeadIdle
  /\ MimicIdle
  /\ LossIdle

AlignScaleCall ==
  /\ al_pc = "call"
  /\ al_out' = AlignScale(al_stu, al_tea)
  /\ al_pc' = "done"
  /\ UNCHANGED <<al_stu, al_tea>>
  /\ UNCHANGED <<hd_vars, mm_vars, ls_vars>>

AlignNext == AlignScaleCall



\* ------------------------------------------------------- detection heads
\* depth of the conv towers of the GFL head (bbox_head.stacked_convs)
StackedConvs == 2
\* number of FPN levels (bbox_head.prior_generator.num_levels)
NumLevels == 2

\* a layer acting on every element alike: x |-> w * x + b
Linear(t, w, b) ==
  [shape |-> t.shape, data |-> Stored([j \in 1..Len(t.data) |-> w * t.data[j] + b])]

\* The layers of a head are deterministic maps of their input; net 0 is the
\* teacher and net 1 a student with other weights.  branch 0 is the
\* classification tower, branch 1 the regression tower.
ConvW(net, branch, i) == 1 + ((net + branch + i) % 2)
ConvB(net, branch, i) == ((2 * net + branch + 2 * i) % 3) - 2

\* cls_conv(x, activate=False): convolution and normalisation of conv i
\* (0-based), without the activation
ConvNoAct(net, branch, i, t) ==
  Linear(t, ConvW(net, branch, i), ConvB(net, branch, i))

\* cls_conv.activate: ReLU
Activate(t) ==
  [shape |-> t.shape,
   data  |-> Stored([j \in 1..Len(t.data) |-> IF t.data[j] > 0 THEN t.data[j] ELSE 0])]

\* cls_convs[i](x): convolution, normalisation and activation
ConvModule(net, branch, i, t) == Activate(ConvNoAct(net, branch, i, t))

\* bbox_head.gfl_cls and bbox_head.gfl_reg
GflCls(net, t) == Linear(t, net + 1, 0 - 1)
GflReg(net, t) == Linear(t, 0 - (net + 2), 1)

\* bbox_head.scales[level]: a learnable factor per level
ScaleLayer(net, level, t) == Linear(t, net + level + 1, 0)

\* extract_feat: backbone and neck give one feature map per level
ExtractFeat(net, img, levels) ==
  [l \in 1..levels |->
     IF net = 0 THEN Linear(img, 1, l - 1) ELSE Linear(img, 2, 0 - l)]

\* The loop of forward_crosskd_single over one conv tower, from conv i
\* (0-based) on.  The held feature is a reference to the tensor the conv
\* returned; an activation layer built with inplace=True then writes its
\* result into that same tensor, so the reference reads the activated values.
RECURSIVE TowerLoop(_, _, _, _, _, _, _)
TowerLoop(net, branch, feat, hold, i, k, inplace) ==
  IF i >= StackedConvs THEN [feat |-> feat, hold |-> hold]
  ELSE LET pre  == ConvNoAct(net, branch, i, feat)
           post == Activate(pre)
           held == IF i + 1 = k
                   THEN (IF inplace THEN post ELSE pre)
                   ELSE hold
       IN  TowerLoop(net, branch, post, held, i + 1, k, inplace)

ForwardCrosskdSingle(x, level, net, k, inplace) ==
  LET c == TowerLoop(net, 0, x, x, 0, k, inplace)
      r == TowerLoop(net, 1, x, x, 0, k, inplace)
  IN  [cls_score     |-> GflCls(net, c.feat),
       bbox_pred     |-> ScaleLayer(net, level, GflReg(net, r.feat)),
       cls_feat_hold |-> c.hold,
       reg_feat_hold |-> r.hold]

\* the teacher convs i .. stacked_convs-1 applied in order
RECURSIVE TeacherTail(_, _, _)
TeacherTail(branch, feat, i) ==
  IF i >= StackedConvs THEN feat
  ELSE TeacherTail(branch, ConvModule(0, branch, i, feat), i + 1)

\* the bug of leaving out the activation of the held feature
ReusedHeadNoRelu(reused_cls_feat, reused_reg_feat, level, k) ==
  [cls_score |-> GflCls(0, TeacherTail(0, reused_cls_feat, k)),
   bbox_pred |-> ScaleLayer(0, level, GflReg(0, TeacherTail(1, reused_reg_feat, k)))]

\* reuse_teacher_head after the alignment: the rest of the teacher head
ReusedHead(reused_cls_feat, reused_reg_feat, level, k) ==
  LET c == IF k # 0 THEN Activate(reused_cls_feat) ELSE reused_cls_feat
      r == IF k # 0 THEN Activate(reused_reg_feat) ELSE reused_reg_feat
  IN  [cls_score |-> GflCls(0, TeacherTail(0, c, k)),
       bbox_pred |-> ScaleLayer(0, level, GflReg(0, TeacherTail(1, r, k)))]

ReuseTeacherHead(tea_cls_feat, tea_reg_feat, stu_cls_feat, stu_reg_feat, level, k) ==
  ReusedHead(AlignScale(stu_cls_feat, tea_cls_feat),
             AlignScale(stu_reg_feat, tea_reg_feat), level, k)



HeadInit ==
  /\ reused_teacher_head_idx \in 0..StackedConvs
  /\ inplace_act \in BOOLEAN
  /\ stu_net \in {0, 1}
  /\ \E seed \in 0..MaxSeed, off \in -1..1 :
       batch_inputs = Linear(GenTensor(<<1, 1, 1, MaxW>>, seed), 1, off)
  /\ tea_out = <<>>
  /\ stu_out = <<>>
  /\ reused_in = <<>>
  /\ reused_out = <<>>
  /\ hd_pc = "teacher"
  /\ AlignIdle
  /\ MimicIdle
  /\ LossIdle

\* loss, lines 41-44: the teacher's features and its head, level by level
TeacherForward ==
  /\ hd_pc = "teacher"
  /\ tea_out' = LET tea_x == ExtractFeat(0, batch_inputs, NumLevels)
                IN  [l \in 1..NumLevels |->
                       ForwardCrosskdSingle(tea_x[l], l, 0,
                                            reused_teacher_head_idx, inplace_act)]
  /\ hd_pc' = "student"
  /\ UNCHANGED <<reused_teacher_head_idx, inplace_act, stu_net, batch_inputs,
                 stu_out, reused_in, reused_out>>
  /\ UNCHANGED <<al_vars, mm_vars, ls_vars>>

\* loss, lines 47-50: the student's features and its head
StudentForward ==
  /\ hd_pc = "student"
  /\ stu_out' = LET stu_x == ExtractFeat(stu_net, batch_inputs, NumLevels)
                IN  [l \in 1..NumLevels |->
                       ForwardCrosskdSingle(stu_x[l], l, stu_net,
                                            reused_teacher_head_idx, inplace_act)]
  /\ hd_pc' = "reuse"
  /\ UNCHANGED <<reused_teacher_head_idx, inplace_act, stu_net, batch_inputs,
                 tea_out, reused_in, reused_out>>
  /\ UNCHANGED <<al_vars, mm_vars, ls_vars>>

\* loss, lines 53-55: the student's held features through the teacher's head
ReuseCall ==
  /\ hd_pc = "reuse"
  /\ reused_in' = [l \in 1..NumLevels |->
                     [cls |-> AlignScale(stu_out[l].cls_feat_hold, tea_out[l].cls_feat_hold),
                      reg |-> AlignScale(stu_out[l].reg_feat_hold, tea_out[l].reg_feat_hold)]]
  /\ reused_out' = [l \in 1..NumLevels |->
                      ReuseTeacherHead(tea_out[l].cls_feat_hold, tea_out[l].reg_feat_hold,
                                       stu_out[l].cls_feat_hold, stu_out[l].reg_feat_hold,
                                       l, reused_teacher_head_idx)]
  /\ hd_pc' = "done"
  /\ UNCHANGED <<reused_teacher_head_idx, inplace_act, stu_net, batch_inputs,
                 tea_out, stu_out>>
  /\ UNCHANGED <<al_vars, mm_vars, ls_vars>>

HeadNext == TeacherForward \/ StudentForward \/ ReuseCall


\* ------------------------------------------------ prediction mimicking
\* Tensor.sigmoid in fixed point
Sigmoid(x) ==
  CASE x <= -4 -> 2
    [] x = -3  -> 5
    [] x = -2  -> 12
    [] x = -1  -> 27
    [] x = 0   -> 50
    [] x = 1   -> 73
    [] x = 2   -> 88
    [] x = 3   -> 95
    [] OTHER   -> 98

Abs(x) == IF x < 0 THEN 0 - x ELSE x

\* the distance of two rows that a distillation loss weighs
RowDistance(p, t) == SeqSum([j \in 1..Len(p) |-> Abs(p[j] - t[j])])

\* a weighted loss of mmdet: the elementwise weighted sum over rows divided
\* by avg_factor + eps (eps is one unit of the resolution)
WeightedLoss(pred, target, weight, avg_factor) ==
  LET total == SeqSum([r \in 1..pred.shape[1] |->
                         weight[r] * RowDistance(Row2(pred, r), Row2(target, r))])
  IN  (total * Scale) \div (IF avg_factor = 0 THEN 1 ELSE avg_factor)

\* self.loss_cls_kd and self.loss_reg_kd, built from the config
LossClsKD(pred, target, weight, avg_factor) ==
  WeightedLoss(pred, target, weight, avg_factor)

LossRegKD(pred, target, weight, avg_factor) ==
  WeightedLoss(pred, target, weight, avg_factor)

\* the bug of tiling the anchor weights instead of repeating each four times
ExpandWeightsTiled(reg_weights) ==
  Stored([r \in 1..(4 * Len(reg_weights)) |-> reg_weights[((r - 1) % Len(reg_weights)) + 1]])

\* reg_weights[:, None].expand(-1, 4).reshape(-1)
ExpandWeights(reg_weights) ==
  Stored([r \in 1..(4 * Len(reg_weights)) |-> reg_weights[(r - 1) \div 4 + 1]])

\* the locals of pred_mimicking_loss_single at its return
PredMimickingLocals(tea_cls_score, tea_bbox_pred, reused_cls_score, reused_bbox_pred, label_weights, avg_factor) ==
  LET tcs == ReshapeCols(Permute4(tea_cls_score, <<0, 2, 3, 1>>), ClsOutChannels)
      rcs == ReshapeCols(Permute4(reused_cls_score, <<0, 2, 3, 1>>), ClsOutChannels)
      lw  == label_weights.data
      tbp == ReshapeCols(Permute4(tea_bbox_pred, <<0, 2, 3, 1>>), RegMax + 1)
      rbp == ReshapeCols(Permute4(reused_bbox_pred, <<0, 2, 3, 1>>), RegMax + 1)
      rw0 == Stored([a \in 1..tcs.shape[1] |-> Sigmoid(SeqMax(Row2(tcs, a)))])
      rw  == Stored([a \in 1..Len(rw0) |-> IF lw[a] = 0 THEN 0 ELSE rw0[a]])
      wt  == ExpandWeights(rw)
  IN  [tea_cls_score    |-> tcs,
       reused_cls_score |-> rcs,
       tea_bbox_pred    |-> tbp,
       reused_bbox_pred |-> rbp,
       reg_weights      |-> rw,
       weight           |-> wt,
       loss_cls_kd      |-> LossClsKD(rcs, tcs, lw, avg_factor),
       loss_reg_kd      |-> LossRegKD(rbp, tbp, wt, 4 * Scale)]

PredMimickingLossSingle(tea_cls_score, tea_bbox_pred, reused_cls_score, reused_bbox_pred, label_weights, avg_factor) ==
  LET v == PredMimickingLocals(tea_cls_score, tea_bbox_pred, reused_cls_score,
                               reused_bbox_pred, label_weights, avg_factor)
  IN  <<v.loss_cls_kd, v.loss_reg_kd, SeqSum(v.reg_weights)>>

\* label weights of one level, shape (N, H*W): all 1 (p = 0), all 0
\* (p beyond the anchors), or 0 at anchor p only
GenLabelWeights(n, hw, p) ==
  [shape |-> <<n, hw>>,
   data  |-> Stored([a \in 1..(n * hw) |->
                IF p > n * hw THEN 0 ELSE IF a = p THEN 0 ELSE 1])]

MimicInit ==
  /\ \E n \in 1..MaxN, h \in 1..MaxH, w \in 1..MaxW, seed \in 0..MaxSeed,
        af \in {Scale, 2 * Scale} :
     \E p \in 0..(n * h * w + 1) :
       mm_in = [tea_cls_score    |-> GenTensor(<<n, ClsOutChannels, h, w>>, seed),
                tea_bbox_pred    |-> GenTensor(<<n, 4 * (RegMax + 1), h, w>>, seed + 1),
                reused_cls_score |-> GenTensor(<<n, ClsOutChannels, h, w>>, seed + 2),
                reused_bbox_pred |-> GenTensor(<<n, 4 * (RegMax + 1), h, w>>, seed + 3),
                label_weights    |-> GenLabelWeights(n, h * w, p),
                avg_factor       |-> af]
  /\ mm_locals = <<>>
  /\ mm_ret = <<>>
  /\ mm_pc = "call"
  /\ AlignIdle
  /\ HeadIdle
  /\ LossIdle

PredMimickingCall ==
  /\ mm_pc = "call"
  /\ mm_locals' = PredMimickingLocals(mm_in.tea_cls_score, mm_in.tea_bbox_pred,
                                      mm_in.reused_cls_score, mm_in.reused_bbox_pred,
                                      mm_in.label_weights, mm_in.avg_factor)
  /\ mm_ret' = PredMimickingLossSingle(mm_in.tea_cls_score, mm_in.tea_bbox_pred,
                                       mm_in.reused_cls_score, mm_in.reused_bbox_pred,
                                       mm_in.label_weights, mm_in.avg_factor)
  /\ mm_pc' = "done"
  /\ UNCHANGED mm_in
  /\ UNCHANGED <<al_vars, hd_vars, ls_vars>>

MimicNext == PredMimickingCall


\* ---------------------------------------------------------- loss_by_feat
Procs == 1..NumProcs

\* a process that has not reached a collective yet has sent nothing
NotSent == 0 - 1

\* the quotient of a division by zero
NonFinite == 0 - 1

Max2(a, b) == IF a >= b THEN a ELSE b

RECURSIVE SeqMin(_)
SeqMin(s) ==
  IF Len(s) = 1 THEN s[1] ELSE Min2(Head(s), SeqMin(Tail(s)))

\* x / d for a loss x and a normalising factor d in fixed point
Divide(x, d) == IF d = 0 THEN NonFinite ELSE (x * Scale) \div d

\* bbox_head.prior_generator.strides
Stride(l) == 2 ^ (l + 2)

\* bbox_head.get_targets on a batch of one of three kinds: "pos" has one
\* positive anchor per level, "neg" has none, "off" has none and every label
\* weight 0.  A level has one anchor per position of its feature map, and
\* avg_factor counts the positives.
GetTargets(featmap_sizes, kind) ==
  LET A(l) == featmap_sizes[l][1] * featmap_sizes[l][2]
  IN  [labels_list        |-> [l \in 1..NumLevels |-> Stored([a \in 1..A(l) |->
                                 IF kind = "pos" /\ a = 1 THEN 0 ELSE ClsOutChannels])],
       label_weights_list |-> [l \in 1..NumLevels |->
                                 [shape |-> <<1, A(l)>>,
                                  data  |-> Stored([a \in 1..A(l) |->
                                                      IF kind = "off" THEN 0 ELSE 1])]],
       bbox_targets_list  |-> [l \in 1..NumLevels |-> Stored([a \in 1..A(l) |-> l + a])],
       avg_factor         |-> IF kind = "pos" THEN NumLevels ELSE 0]

\* bbox_head.loss_by_feat_single of the GFL head: the quality focal loss
\* over all anchors, the box and distribution losses over the positives
\* weighted by the student's own score, and the sum of those weights
LossByFeatSingle(cls_score, bbox_pred, labels, label_weights, bbox_targets, stride, avg_factor) ==
  LET cs  == ReshapeCols(Permute4(cls_score, <<0, 2, 3, 1>>), ClsOutChannels)
      bp  == ReshapeCols(Permute4(bbox_pred, <<0, 2, 3, 1>>), 4 * (RegMax + 1))
      A   == cs.shape[1]
      pos(a) == labels[a] < ClsOutChannels
      wt(a)  == IF pos(a) THEN Sigmoid(SeqMax(Row2(cs, a))) ELSE 0
      qfl == SeqSum([a \in 1..A |->
               label_weights.data[a]
                 * Abs((IF pos(a) THEN Scale ELSE 0) - Sigmoid(Row2(cs, a)[1]))])
  IN  << (qfl * Scale) \div (IF avg_factor = 0 THEN 1 ELSE avg_factor),
         SeqSum([a \in 1..A |-> wt(a) * Abs(SeqSum(Row2(bp, a)) * stride - bbox_targets[a])]),
         SeqSum([a \in 1..A |-> wt(a) * Abs(SeqMax(Row2(bp, a)) - bbox_targets[a])]),
         SeqSum([a \in 1..A |-> wt(a)]) >>

\* self.loss_feat_kd, built from the config
LossFeatKD(feat, tea_feat) == RowDistance(feat.data, tea_feat.data)

\* multi_apply maps over its list arguments zipped: as many calls as the
\* shortest list has entries
MultiApplyCalls(lengths) == SeqMin(lengths)

\* reduce_mean: the tensor itself without a process group, else the
\* all-reduced sum of every process's tensor divided by the world size
ReduceMean(sent, p) ==
  IF ~dist_initialized THEN sent[p]
  ELSE SeqSum([q \in 1..NumProcs |-> sent[q] \div NumProcs])

\* loss_by_feat, lines 188-200: the supervised terms of every level
SupervisedLosses(inp, tg, avgf) ==
  LET n == MultiApplyCalls(<<NumLevels, Len(inp.cls_scores), Len(inp.bbox_preds),
                             Len(tg.labels_list), Len(tg.label_weights_list),
                             Len(tg.bbox_targets_list), NumLevels>>)
      res == Stored([l \in 1..n |->
                LossByFeatSingle(inp.cls_scores[l], inp.bbox_preds[l],
                                 tg.labels_list[l], tg.label_weights_list[l],
                                 tg.bbox_targets_list[l], Stride(l), avgf)])
  IN  [losses_cls     |-> [l \in 1..n |-> res[l][1]],
       losses_bbox    |-> [l \in 1..n |-> res[l][2]],
       losses_dfl     |-> [l \in 1..n |-> res[l][3]],
       new_avg_factor |-> SeqSum([l \in 1..n |-> res[l][4]])]

\* the bug of distilling from the student's own predictions
DistillLossesFromStudent(inp, tg, avgf) ==
  LET n == MultiApplyCalls(<<Len(inp.tea_cls_scores), Len(inp.tea_bbox_preds),
                             Len(inp.cls_scores), Len(inp.bbox_preds),
                             Len(tg.label_weights_list)>>)
      res == Stored([l \in 1..n |->
                PredMimickingLossSingle(inp.tea_cls_scores[l], inp.tea_bbox_preds[l],
                                        inp.cls_scores[l], inp.bbox_preds[l],
                                        tg.label_weights_list[l], avgf)])
      kd  == SeqSum([l \in 1..n |-> res[l][3]])
  IN  [losses_cls_kd |-> [l \in 1..n |-> res[l][1]],
       losses_reg_kd |-> [l \in 1..n |-> Divide(res[l][2], kd)],
       kd_avg_factor |-> kd]

\* loss_by_feat, lines 208-217: the distillation terms of every level
DistillLosses(inp, tg, avgf) ==
  LET n == MultiApplyCalls(<<Len(inp.tea_cls_scores), Len(inp.tea_bbox_preds),
                             Len(inp.reused_cls_scores), Len(inp.reused_bbox_preds),
                             Len(tg.label_weights_list)>>)
      res == Stored([l \in 1..n |->
                PredMimickingLossSingle(inp.tea_cls_scores[l], inp.tea_bbox_preds[l],
                                        inp.reused_cls_scores[l], inp.reused_bbox_preds[l],
                                        tg.label_weights_list[l], avgf)])
      kd  == SeqSum([l \in 1..n |-> res[l][3]])
  IN  [losses_cls_kd |-> [l \in 1..n |-> res[l][1]],
       losses_reg_kd |-> [l \in 1..n |-> Divide(res[l][2], kd)],
       kd_avg_factor |-> kd]

\* the bug of pairing every student level with the first teacher level
FeatDistillFirstTeacher(feats, tea_feats) ==
  [i \in 1..Min2(Len(feats), Len(tea_feats)) |-> LossFeatKD(feats[i], tea_feats[1])]

\* loss_by_feat, lines 223-226: zip(feats, tea_feats) stops at the shorter
FeatDistill(feats, tea_feats) ==
  [i \in 1..Min2(Len(feats), Len(tea_feats)) |-> LossFeatKD(feats[i], tea_feats[i])]

\* the bug of rebinding the dictionary instead of updating it
LossDictRebound(sup, new_avg, kd, flag, feat_kd) ==
  (IF flag THEN [loss_feat_kd |-> feat_kd] ELSE <<>>)
    @@ [loss_cls_kd |-> kd.losses_cls_kd, loss_reg_kd |-> kd.losses_reg_kd]

\* the dictionary loss_by_feat returns (lines 202-205, 218-219, 222-228)
LossDict(sup, new_avg, kd, flag, feat_kd) ==
  (IF flag THEN [loss_feat_kd |-> feat_kd] ELSE <<>>)
    @@ [loss_cls_kd |-> kd.losses_cls_kd, loss_reg_kd |-> kd.losses_reg_kd]
    @@ [loss_cls  |-> sup.losses_cls,
        loss_bbox |-> [l \in 1..Len(sup.losses_bbox) |-> Divide(sup.losses_bbox[l], new_avg)],
        loss_dfl  |-> [l \in 1..Len(sup.losses_dfl) |-> Divide(sup.losses_dfl[l], new_avg)]]

KindOf(i) == IF i = 0 THEN "pos" ELSE IF i = 1 THEN "neg" ELSE "off"

\* the arguments of loss_by_feat as loss passes them: the teacher's lists
\* have one entry per teacher level, the student's one per student level,
\* the reused ones one per level both have
GenInputs(kind, stu_seed, kd_seed, T, S) ==
  [kind              |-> kind,
   tea_cls_scores    |-> Stored([l \in 1..T |->
        GenTensor(<<1, ClsOutChannels, 1, 1>>, kd_seed + l)]),
   tea_bbox_preds    |-> Stored([l \in 1..T |->
        GenTensor(<<1, 4 * (RegMax + 1), 1, 1>>, kd_seed + l + 1)]),
   tea_feats         |-> Stored([l \in 1..T |->
        GenTensor(<<1, 1, 1, 1>>, kd_seed + 2 * l + 2)]),
   cls_scores        |-> Stored([l \in 1..S |->
        GenTensor(<<1, ClsOutChannels, 1, 1>>, 2 * stu_seed + l + 3)]),
   bbox_preds        |-> Stored([l \in 1..S |->
        GenTensor(<<1, 4 * (RegMax + 1), 1, 1>>, 2 * stu_seed + l + 4)]),
   feats             |-> Stored([l \in 1..S |->
        GenTensor(<<1, 1, 1, 1>>, 2 * stu_seed + l + 5)]),
   reused_cls_scores |-> Stored([l \in 1..Min2(T, S) |->
        GenTensor(<<1, ClsOutChannels, 1, 1>>, kd_seed + l + 6)]),
   reused_bbox_preds |-> Stored([l \in 1..Min2(T, S) |->
        GenTensor(<<1, 4 * (RegMax + 1), 1, 1>>, kd_seed + l + 7)])]

LossInit ==
  /\ dist_initialized \in BOOLEAN
  /\ tea_levels \in {NumLevels - 1, NumLevels, NumLevels + 1}
  /\ stu_levels \in {NumLevels - 1, NumLevels, NumLevels + 1}
  /\ \E kb \in 0..2, ks \in 0..1, sb \in {0}, ss \in 0..1, tb \in {0}, ts \in 0..1,
        fb \in 0..1, fs \in 0..1 :
       /\ ss + ts <= 1
       /\ dist_initialized => fs = 0
       /\ ls_feat_distill = [p \in Procs |-> (fb + (p - 1) * fs) % 2 = 1]
       /\ ls_in = Stored([p \in Procs |->
                     GenInputs(KindOf((kb + (p - 1) * ks) % 3),
                               (sb + (p - 1) * ss) % 2, (tb + (p - 1) * ts) % 2,
                               tea_levels, stu_levels)])
  /\ ls_pc = [p \in Procs |-> "start"]
  /\ ls_targets = [p \in Procs |-> <<>>]
  /\ sent_avg = [p \in Procs |-> NotSent]
  /\ sent_new = [p \in Procs |-> NotSent]
  /\ ls_avg_factor = [p \in Procs |-> NotSent]
  /\ ls_sup = [p \in Procs |-> <<>>]
  /\ ls_new_avg_factor = [p \in Procs |-> NotSent]
  /\ ls_kd_avg_factor = [p \in Procs |-> NotSent]
  /\ ls_losses = [p \in Procs |-> <<>>]
  /\ AlignIdle
  /\ HeadIdle
  /\ MimicIdle

\* Processes of one job run concurrently and meet in the collectives; without
\* a process group every process is a training run of its own, and the runs
\* are taken one after the other.
Turn(p) ==
  dist_initialized \/ \A q \in 1..(p - 1) : ls_pc[q] \in {"done", "assert_failed"}

\* lines 166-167: the assertion on the student's number of levels fails
RejectLevels(p) ==
  /\ ls_pc[p] = "start"
  /\ Turn(p)
  /\ Len(ls_in[p].cls_scores) # NumLevels
  /\ ls_pc' = [ls_pc EXCEPT ![p] = "assert_failed"]
  /\ UNCHANGED <<dist_initialized, tea_levels, stu_levels, ls_feat_distill, ls_in,
                 ls_targets, sent_avg, sent_new, ls_avg_factor, ls_sup,
                 ls_new_avg_factor, ls_kd_avg_factor, ls_losses>>
  /\ UNCHANGED <<al_vars, hd_vars, mm_vars>>

\* lines 166-185 up to the all-reduce of avg_factor
AssignTargets(p) ==
  /\ ls_pc[p] = "start"
  /\ Turn(p)
  /\ Len(ls_in[p].cls_scores) = NumLevels
  /\ LET featmap_sizes == [l \in 1..Len(ls_in[p].cls_scores) |->
                             <<ls_in[p].cls_scores[l].shape[3],
                               ls_in[p].cls_scores[l].shape[4]>>]
         tg == GetTargets(featmap_sizes, ls_in[p].kind)
     IN  /\ ls_targets' = [ls_targets EXCEPT ![p] = tg]
         /\ sent_avg' = [sent_avg EXCEPT ![p] = tg.avg_factor * Scale]
  /\ ls_pc' = [ls_pc EXCEPT ![p] = "reduce_avg"]
  /\ UNCHANGED <<dist_initialized, tea_levels, stu_levels, ls_feat_distill, ls_in,
                 sent_new, ls_avg_factor, ls_sup,
                 ls_new_avg_factor, ls_kd_avg_factor, ls_losses>>
  /\ UNCHANGED <<al_vars, hd_vars, mm_vars>>

\* lines 184-201 up to the all-reduce of new_avg_factor
Supervised(p) ==
  /\ ls_pc[p] = "reduce_avg"
  /\ dist_initialized => \A q \in Procs : sent_avg[q] # NotSent
  /\ LET avgf == ReduceMean(sent_avg, p)
         sup  == SupervisedLosses(ls_in[p], ls_targets[p], avgf)
     IN  /\ ls_avg_factor' = [ls_avg_factor EXCEPT ![p] = avgf]
         /\ ls_sup' = [ls_sup EXCEPT ![p] = sup]
         /\ sent_new' = [sent_new EXCEPT ![p] = sup.new_avg_factor]
  /\ ls_pc' = [ls_pc EXCEPT ![p] = "reduce_new"]
  /\ UNCHANGED <<dist_initialized, tea_levels, stu_levels, ls_feat_distill, ls_in,
                 ls_targets, sent_avg, ls_new_avg_factor, ls_kd_avg_factor, ls_losses>>
  /\ UNCHANGED <<al_vars, hd_vars, mm_vars>>

\* lines 201-228: the rest of loss_by_feat
Distill(p) ==
  /\ ls_pc[p] = "reduce_new"
  /\ dist_initialized => \A q \in Procs : sent_new[q] # NotSent
  /\ LET new_avg == Max2(ReduceMean(sent_new, p), Scale)
         kd      == DistillLosses(ls_in[p], ls_targets[p], ls_avg_factor[p])
         feat_kd == IF ls_feat_distill[p]
                    THEN FeatDistill(ls_in[p].feats, ls_in[p].tea_feats) ELSE <<>>
     IN  /\ ls_new_avg_factor' = [ls_new_avg_factor EXCEPT ![p] = new_avg]
         /\ ls_kd_avg_factor' = [ls_kd_avg_factor EXCEPT ![p] = kd.kd_avg_factor]
         /\ ls_losses' = [ls_losses EXCEPT ![p] =
                            LossDict(ls_sup[p], new_avg, kd, ls_feat_distill[p], feat_kd)]
  /\ ls_pc' = [ls_pc EXCEPT ![p] = "done"]
  /\ UNCHANGED <<dist_initialized, tea_levels, stu_levels, ls_feat_distill, ls_in,
                 ls_targets, sent_avg, sent_new, ls_avg_factor, ls_sup>>
  /\ UNCHANGED <<al_vars, hd_vars, mm_vars>>

LossNext ==
  \E p \in Procs : RejectLevels(p) \/ AssignTargets(p) \/ Supervised(p) \/ Distill(p)

SpecAlign == AlignInit /\ [][AlignNext]_vars

SpecHead == HeadInit /\ [][HeadNext]_vars

SpecMimic == MimicInit /\ [][MimicNext]_vars

SpecLoss == LossInit /\ [][LossNext]_vars

\* ------------------------------------------------------------------ claims
\* the N*H*W elements of channel c, gathered straight from the NCHW layout
ChannelElems(t, c) ==
  LET N == t.shape[1]
      H == t.shape[3]
      W == t.shape[4]
  IN  [i \in 1..(N * H * W) |->
         At4(t, (i - 1) \div (H * W), c, ((i - 1) \div W) % H, (i - 1) % W)]

AlignedValue(x, srow, trow) ==
  DenormF(NormF(x, MeanF(srow), StdF(srow)), StdF(trow), MeanF(trow))

\* C3: align_scale keeps the (N, C, H, W) layout, and its value at
\* (n, c, h, w) is the student value at (n, c, h, w) normalised with the
\* statistics of student channel c and rescaled with those of teacher
\* channel c, each taken over the N*H*W elements of that channel.
C3_AlignPerChannel ==
  al_pc = "done" =>
    /\ al_out.shape = al_stu.shape
    /\ Len(al_out.data) = Numel(al_stu)
    /\ \A n \in 0..(al_stu.shape[1] - 1), c \in 0..(al_stu.shape[2] - 1),
          h \in 0..(al_stu.shape[3] - 1), w \in 0..(al_stu.shape[4] - 1) :
         At4(al_out, n, c, h, w) =
           AlignedValue(At4(al_stu, n, c, h, w),
                        ChannelElems(al_stu, c), ChannelElems(al_tea, c))

C3_Witness ==
  /\ al_pc = "done"
  /\ al_stu.shape = <<2, 2, 2, 2>>
  /\ \E c \in 0..1 : StdF(ChannelElems(al_stu, c)) > 0
  /\ al_out # al_stu

Scores(o) == [cls_score |-> o.cls_score, bbox_pred |-> o.bbox_pred]

Holds(o) == [cls |-> o.cls_feat_hold, reg |-> o.reg_feat_hold]

\* C4: when the student is the teacher network and align_scale leaves the
\* held features as they are, the partial forward followed by the reused
\* teacher head gives the teacher's own cls_score and bbox_pred at every
\* level, for every reused_teacher_head_idx in 0..stacked_convs.
C4_ReusedEqualsTeacher ==
  (hd_pc = "done" /\ stu_net = 0) =>
    \A l \in 1..NumLevels :
      /\ ReusedHead(stu_out[l].cls_feat_hold, stu_out[l].reg_feat_hold,
                    l, reused_teacher_head_idx) = Scores(tea_out[l])
      /\ reused_in[l] = Holds(stu_out[l]) => reused_out[l] = Scores(tea_out[l])

HasNegative(t) == \E j \in 1..Len(t.data) : t.data[j] < 0

C4_Witness ==
  /\ hd_pc = "done"
  /\ stu_net = 0
  /\ reused_teacher_head_idx = 1
  /\ ~inplace_act
  /\ \E l \in 1..NumLevels :
       /\ HasNegative(stu_out[l].cls_feat_hold)
       /\ reused_in[l] = Holds(stu_out[l])
       /\ reused_out[l] = Scores(tea_out[l])
       /\ \E j \in 1..Len(reused_out[l].cls_score.data) :
            reused_out[l].cls_score.data[j] # reused_out[l].cls_score.data[1]

\* the output of the first j convs of a tower, each with its activation
RECURSIVE HeadPrefix(_, _, _, _)
HeadPrefix(net, branch, x, j) ==
  IF j = 0 THEN x
  ELSE Activate(ConvNoAct(net, branch, j - 1, HeadPrefix(net, branch, x, j - 1)))

\* the output of conv k (counted from 1) before its activation; x for k = 0
BeforeActivation(net, branch, x, k) ==
  IF k = 0 THEN x
  ELSE ConvNoAct(net, branch, k - 1, HeadPrefix(net, branch, x, k - 1))

HeldAsClaimed(o, x, l, net) ==
  /\ o.cls_feat_hold = BeforeActivation(net, 0, x, reused_teacher_head_idx)
  /\ o.reg_feat_hold = BeforeActivation(net, 1, x, reused_teacher_head_idx)

FullHeadOutputs(o, x, l, net) ==
  /\ o.cls_score = GflCls(net, HeadPrefix(net, 0, x, StackedConvs))
  /\ o.bbox_pred = ScaleLayer(net, l, GflReg(net, HeadPrefix(net, 1, x, StackedConvs)))

\* C5: forward_crosskd_single holds the output of conv k before its
\* activation (the input x for k = 0) and returns the full head outputs,
\* which do not depend on k.
C5_HeldBeforeActivation ==
  /\ hd_pc \in {"student", "reuse", "done"} =>
       \A l \in 1..NumLevels :
         LET x == ExtractFeat(0, batch_inputs, NumLevels)[l]
         IN  HeldAsClaimed(tea_out[l], x, l, 0) /\ FullHeadOutputs(tea_out[l], x, l, 0)
  /\ hd_pc \in {"reuse", "done"} =>
       \A l \in 1..NumLevels :
         LET x == ExtractFeat(stu_net, batch_inputs, NumLevels)[l]
         IN  HeldAsClaimed(stu_out[l], x, l, stu_net)
             /\ FullHeadOutputs(stu_out[l], x, l, stu_net)

\* what holds of forward_crosskd_single with any activation layer
C5_OutputsAndHeldWithoutInplace ==
  /\ hd_pc \in {"student", "reuse", "done"} =>
       \A l \in 1..NumLevels :
         LET x == ExtractFeat(0, batch_inputs, NumLevels)[l]
         IN  /\ FullHeadOutputs(tea_out[l], x, l, 0)
             /\ (~inplace_act \/ reused_teacher_head_idx = 0)
                  => HeldAsClaimed(tea_out[l], x, l, 0)
             /\ (inplace_act /\ reused_teacher_head_idx # 0)
                  => Holds(tea_out[l]) =
                       [cls |-> Activate(BeforeActivation(0, 0, x, reused_teacher_head_idx)),
                        reg |-> Activate(BeforeActivation(0, 1, x, reused_teacher_head_idx))]

\* the weight the claim gives anchor a (0-based), read from the inputs in
\* (image, row, column) order
AnchorWeight(a) ==
  LET H == mm_in.tea_cls_score.shape[3]
      W == mm_in.tea_cls_score.shape[4]
      n == a \div (H * W)
      h == (a \div W) % H
      w == a % W
      logits == [c \in 1..ClsOutChannels |-> At4(mm_in.tea_cls_score, n, c - 1, h, w)]
  IN  IF mm_in.label_weights.data[n * (H * W) + h * W + w + 1] = 0 THEN 0
      ELSE Sigmoid(SeqMax(logits))

\* the distribution of side s of anchor a, read from a (N, 4(reg_max+1), H, W) map
SideDistribution(t, a, s) ==
  LET H == t.shape[3]
      W == t.shape[4]
  IN  [j \in 1..(RegMax + 1) |->
         At4(t, a \div (H * W), s * (RegMax + 1) + j - 1, (a \div W) % H, a % W)]

NumAnchors == mm_in.tea_cls_score.shape[1] * mm_in.tea_cls_score.shape[3]
                * mm_in.tea_cls_score.shape[4]

\* C7: the regression-distillation weight of an anchor is 0 when its label
\* weight is 0 and else the sigmoid of the teacher's maximum class logit;
\* row r of the reshaped distributions is side r mod 4 of anchor r div 4 and
\* gets that anchor's weight; the third return value is the sum of the
\* anchor weights, each counted once.
C7_RegWeights ==
  mm_pc = "done" =>
    /\ Len(mm_locals.reg_weights) = NumAnchors
    /\ \A a \in 0..(NumAnchors - 1) : mm_locals.reg_weights[a + 1] = AnchorWeight(a)
    /\ Len(mm_locals.weight) = 4 * NumAnchors
    /\ mm_locals.tea_bbox_pred.shape = <<4 * NumAnchors, RegMax + 1>>
    /\ mm_locals.reused_bbox_pred.shape = <<4 * NumAnchors, RegMax + 1>>
    /\ \A r \in 0..(4 * NumAnchors - 1) :
         /\ mm_locals.weight[r + 1] = AnchorWeight(r \div 4)
         /\ Row2(mm_locals.tea_bbox_pred, r + 1) =
              SideDistribution(mm_in.tea_bbox_pred, r \div 4, r % 4)
         /\ Row2(mm_locals.reused_bbox_pred, r + 1) =
              SideDistribution(mm_in.reused_bbox_pred, r \div 4, r % 4)
    /\ mm_ret[3] = SeqSum([a \in 1..NumAnchors |-> AnchorWeight(a - 1)])

C7_Witness ==
  /\ mm_pc = "done"
  /\ mm_in.tea_cls_score.shape = <<2, ClsOutChannels, 2, 2>>
  /\ \E a, b \in 1..NumAnchors :
       /\ mm_locals.reg_weights[a] = 0
       /\ mm_locals.reg_weights[b] > 0
       /\ \E c \in 1..NumAnchors : mm_locals.reg_weights[c] \notin {0, mm_locals.reg_weights[b]}
  /\ mm_ret[3] > 0

Done(p) == ls_pc[p] = "done"

FiveTerms == {"loss_cls", "loss_bbox", "loss_dfl", "loss_cls_kd", "loss_reg_kd"}

\* C1 as stated: the dictionary loss_by_feat returns has exactly the keys
\* loss_cls, loss_bbox, loss_dfl, loss_cls_kd and loss_reg_kd, in every
\* configuration.
C1_ExactlyFiveKeys ==
  \A p \in Procs : Done(p) => DOMAIN ls_losses[p] = FiveTerms

\* C1 amended: the five keys are always present, and the only other key is
\* loss_feat_kd, present exactly when with_feat_distill is set.
C1_FiveKeysAndFeatKey ==
  \A p \in Procs :
    Done(p) =>
      DOMAIN ls_losses[p] =
        FiveTerms \cup (IF ls_feat_distill[p] THEN {"loss_feat_kd"} ELSE {})

C1_Witness ==
  \E p \in Procs :
    /\ Done(p)
    /\ ~ls_feat_distill[p]
    /\ Cardinality(DOMAIN ls_losses[p]) = 5
    /\ Len(ls_losses[p].loss_dfl) = NumLevels

SameTargets(p, q) == ls_in[p].kind = ls_in[q].kind

SameDistillInputs(p, q) ==
  /\ ls_in[p].tea_cls_scores = ls_in[q].tea_cls_scores
  /\ ls_in[p].tea_bbox_preds = ls_in[q].tea_bbox_preds
  /\ ls_in[p].reused_cls_scores = ls_in[q].reused_cls_scores
  /\ ls_in[p].reused_bbox_preds = ls_in[q].reused_bbox_preds

SameStudentInputs(p, q) ==
  /\ ls_in[p].cls_scores = ls_in[q].cls_scores
  /\ ls_in[p].bbox_preds = ls_in[q].bbox_preds

SameDistillTerms(p, q) ==
  /\ ls_losses[p].loss_cls_kd = ls_losses[q].loss_cls_kd
  /\ ls_losses[p].loss_reg_kd = ls_losses[q].loss_reg_kd

SameSupervisedTerms(p, q) ==
  /\ ls_losses[p].loss_cls = ls_losses[q].loss_cls
  /\ ls_losses[p].loss_bbox = ls_losses[q].loss_bbox
  /\ ls_losses[p].loss_dfl = ls_losses[q].loss_dfl

\* C2: of two calls with the same targets, equal teacher and reused
\* predictions give equal loss_cls_kd and loss_reg_kd whatever the student's
\* own predictions are, and equal student predictions give equal loss_cls,
\* loss_bbox and loss_dfl whatever the teacher and reused predictions are.
C2_DisjointInputs ==
  \A p, q \in Procs :
    (Done(p) /\ Done(q) /\ SameTargets(p, q)) =>
      /\ SameDistillInputs(p, q) => SameDistillTerms(p, q)
      /\ SameStudentInputs(p, q) => SameSupervisedTerms(p, q)

C2_Witness ==
  \E p, q \in Procs :
    /\ Done(p) /\ Done(q) /\ SameTargets(p, q)
    /\ ~dist_initialized
    /\ ls_in[p].kind = "pos"
    /\ SameDistillInputs(p, q)
    /\ ~SameStudentInputs(p, q)
    /\ ~SameSupervisedTerms(p, q)
    /\ SameDistillTerms(p, q)
    /\ \E l \in 1..Len(ls_losses[p].loss_reg_kd) : ls_losses[p].loss_reg_kd[l] > 0

\* C6: at the divisions of loss_by_feat both divisors, new_avg_factor and
\* kd_avg_factor, are strictly positive, whatever the label weights are.
C6_PositiveDivisors ==
  \A p \in Procs :
    Done(p) => ls_new_avg_factor[p] > 0 /\ ls_kd_avg_factor[p] > 0

\* C8: loss_feat_kd is in the result exactly when with_feat_distill is set;
\* its i-th entry is the feature loss of the i-th student and the i-th
\* teacher feature; the flag changes none of the other five terms.
C8_FeatDistillTerm ==
  \A p \in Procs :
    Done(p) =>
      /\ ("loss_feat_kd" \in DOMAIN ls_losses[p]) <=> ls_feat_distill[p]
      /\ ls_feat_distill[p] =>
           /\ Len(ls_losses[p].loss_feat_kd)
                = Min2(Len(ls_in[p].feats), Len(ls_in[p].tea_feats))
           /\ \A i \in 1..Len(ls_losses[p].loss_feat_kd) :
                ls_losses[p].loss_feat_kd[i]
                  = LossFeatKD(ls_in[p].feats[i], ls_in[p].tea_feats[i])
      /\ \A q \in Procs :
           (Done(q) /\ ls_in[q] = ls_in[p] /\ ls_feat_distill[q] # ls_feat_distill[p])
             => \A k \in FiveTerms : ls_losses[q][k] = ls_losses[p][k]

C8_Witness ==
  \E p, q \in Procs :
    /\ Done(p) /\ Done(q)
    /\ ls_in[q] = ls_in[p]
    /\ ls_feat_distill[p] /\ ~ls_feat_distill[q]
    /\ ls_in[p].kind = "pos"
    /\ Len(ls_losses[p].loss_feat_kd) >= 2
    /\ ls_losses[p].loss_feat_kd[2]
         # LossFeatKD(ls_in[p].feats[2], ls_in[p].tea_feats[1])
    /\ "loss_feat_kd" \notin DOMAIN ls_losses[q]

\* C9: every list of the result has num_levels entries for any teacher and
\* student level counts, and a student level count other than num_levels is
\* rejected before targets are assigned.
C9_NumLevelsEntries ==
  \A p \in Procs :
    /\ Done(p) =>
         \A k \in DOMAIN ls_losses[p] : Len(ls_losses[p][k]) = NumLevels
    /\ Len(ls_in[p].cls_scores) # NumLevels =>
         ls_pc[p] \in {"start", "assert_failed"} /\ sent_avg[p] = NotSent

\* C10: with a process group, every process divides by the same avg_factor,
\* the same new_avg_factor and the same kd_avg_factor.
C10_SameFactorsOnAllRanks ==
  (dist_initialized /\ \A p \in Procs : Done(p)) =>
    \A p, q \in Procs :
      /\ ls_avg_factor[p] = ls_avg_factor[q]
      /\ ls_new_avg_factor[p] = ls_new_avg_factor[q]
      /\ ls_kd_avg_factor[p] = ls_kd_avg_factor[q]
====
